---- MODULE Spec2Model ----
(***************************************************************************)
(* State-machine model of API_Rest/main.py: the pneumonia-detection REST   *)
(* service.  Module-level start-up code selects a Keras model from a       *)
(* priority list; the handlers root, health_check, predict and             *)
(* predict_base64 then answer requests.                                    *)
(*                                                                         *)
(* Numbers.  The network output is a binary floating-point number.  The    *)
(* model keeps the format's structure (a significand of MantBits bits,     *)
(* round-to-nearest-even) and scales its size down: a value v in [0,1] is  *)
(* the integer v * 2^FracBits, and it is a float iff it has at most        *)
(* MantBits significant bits (float32: MantBits = 24).                     *)
(*                                                                         *)
(* Bytes.  A byte string is [pre |-> k, data |-> s]: 3*k zero bytes        *)
(* followed by the bytes of s.  The run of zero bytes stands for the bulk  *)
(* of a large upload, so that lengths around 10 MiB are exact.  A base64   *)
(* text is [pre |-> k, chars |-> c]: k groups "AAAA" (the encoding of      *)
(* three zero bytes) followed by the characters of c.                      *)
(***************************************************************************)
EXTENDS Integers, Sequences, FiniteSets, TLC

\* ------------------------------------------------------------- bounds
\* longest explicit byte suffix of an uploaded payload
MaxLen == 2
\* number of requests that can be in flight at once
MaxTasks == 2
\* fixed-point resolution of the scaled-down float format (1.0 = 2^FracBits)
FracBits == 5
\* significand width of the scaled-down float format
MantBits == 3

\* ------------------------------------------------------------- floats
RECURSIVE Pow2(_)
Pow2(n) == IF n <= 0 THEN 1 ELSE 2 * Pow2(n - 1)

RECURSIVE BitLen(_)
BitLen(n) == IF n <= 0 THEN 0 ELSE 1 + BitLen(n \div 2)

\* 1.0 and 0.5 in fixed-point units
One == Pow2(FracBits)
Half == One \div 2

\* the float nearest to the rational t/den (in units), ties to even
RoundQ(t, den) ==
    LET L == BitLen(t \div den)
        shift == IF L > MantBits THEN L - MantBits ELSE 0
        d == den * Pow2(shift)
        q == t \div d
        r == t % d
        up == (2 * r > d) \/ (2 * r = d /\ q % 2 = 1)
    IN  (IF up THEN q + 1 ELSE q) * Pow2(shift)

\* rounding of an exact fixed-point result to the float format
RoundF(n) == RoundQ(n, 1)

\* the floats of [0,1]
Floats01 == {n \in 0..One : RoundF(n) = n}

\* float subtraction a - b (a >= b), as numpy computes `1 - prediction`
FSub(a, b) == RoundF(a - b)

\* ------------------------------------------------------------- bytes
\* len(contents)
ByteLen(b) == 3 * b.pre + Len(b.data)

\* the i-th byte counted from the end (1 = last); -1 when there is none
ByteFromEnd(b, i) ==
    IF i <= Len(b.data) THEN b.data[Len(b.data) + 1 - i]
    ELSE IF i <= ByteLen(b) THEN 0
    ELSE -1

\* ------------------------------------------------------------- base64
\* characters: 0..63 are the alphabet's sextets, then '=', an ASCII
\* character outside the alphabet ('!'), and a non-ASCII character
PAD == 64
BAD == 65
NONASCII == 66

RECURSIVE EncodeBytes(_)
EncodeBytes(s) ==
    IF Len(s) = 0 THEN << >>
    ELSE IF Len(s) = 1 THEN
        << s[1] \div 4, (s[1] % 4) * 16, PAD, PAD >>
    ELSE IF Len(s) = 2 THEN
        << s[1] \div 4, (s[1] % 4) * 16 + s[2] \div 16, (s[2] % 16) * 4, PAD >>
    ELSE
        << s[1] \div 4, (s[1] % 4) * 16 + s[2] \div 16,
           (s[2] % 16) * 4 + s[3] \div 64, s[3] % 64 >>
        \o EncodeBytes(SubSeq(s, 4, Len(s)))

\* base64.b64encode(bytes).decode('utf-8')
B64Encode(b) == [pre |-> b.pre, chars |-> EncodeBytes(b.data)]

\* binascii.a2b_base64 in its default, non-strict mode: characters outside
\* the alphabet are skipped, '=' ends the input once it completes a quad,
\* and leftover sextets are an error.  Result: [ok, data].
RECURSIVE A2B(_, _, _, _, _, _)
A2B(c, i, quad, left, pads, out) ==
    IF i > Len(c) THEN [ok |-> quad = 0, data |-> out]
    ELSE IF c[i] = PAD THEN
        IF quad >= 2 /\ quad + pads + 1 >= 4
        THEN [ok |-> TRUE, data |-> out]
        ELSE A2B(c, i + 1, quad, left, IF quad >= 2 THEN pads + 1 ELSE pads, out)
    ELSE IF c[i] > PAD THEN A2B(c, i + 1, quad, left, pads, out)
    ELSE IF quad = 0 THEN A2B(c, i + 1, 1, c[i], 0, out)
    ELSE IF quad = 1 THEN
        A2B(c, i + 1, 2, c[i] % 16, 0, Append(out, left * 4 + c[i] \div 16))
    ELSE IF quad = 2 THEN
        A2B(c, i + 1, 3, c[i] % 4, 0, Append(out, left * 16 + c[i] \div 4))
    ELSE A2B(c, i + 1, 0, 0, 0, Append(out, left * 64 + c[i]))

\* base64.b64decode(s) for a str s: ASCII-encode (ValueError otherwise),
\* then a2b_base64.  Result: [ok, bytes]; ok = FALSE is a raised exception.
B64DecodeStr(s) ==
    IF \E i \in 1..Len(s.chars) : s.chars[i] = NONASCII
    THEN [ok |-> FALSE, bytes |-> [pre |-> 0, data |-> << >>]]
    ELSE LET r == A2B(s.chars, 1, 0, 0, 0, << >>)
         IN  [ok |-> r.ok, bytes |-> [pre |-> s.pre, data |-> r.data]]

\* ------------------------------------------------------------- state
VARIABLES
    files,       \* models/ directory: per candidate "missing", "corrupt" or "ok"
    bias,        \* the weights stored in the model files (decides the output)
    pc,          \* "startup" while the module-level loop runs, then "serving"
    idx,         \* position of the start-up loop in model_priority
    model,       \* global `model`: None or the loaded Keras model
    model_name,  \* global `model_name`: None or the candidate's human name
    req,         \* the request being answered (NoReq when idle)
    resp,        \* its response (NoResp when idle)
    tasks        \* the handler coroutines in flight, one per connection slot

vars == << files, bias, pc, idx, model, model_name, req, resp, tasks >>

\* Python's None for the two globals
None == [none |-> TRUE]
NoneName == "<None>"

NoReq == [endpoint |-> "idle"]
NoResp == [status |-> 0]

Slots == 1..MaxTasks
NoTask == [at |-> "free"]

\* ------------------------------------------------------------- start-up
model_priority ==
    << [filename |-> "vgg16_finetuned.h5", name |-> "VGG16 Fine-tuned"],
       [filename |-> "vgg16_best.h5", name |-> "VGG16 Best"],
       [filename |-> "baseline_best.h5", name |-> "CNN Baseline"] >>

FileStates == {"missing", "corrupt", "ok"}

\* keras.models.load_model(model_path) on a loadable file
load_model(i) == [none |-> FALSE, file |-> model_priority[i].filename, w |-> bias]

\* the loop without its `break`: a later candidate replaces an earlier one
LoadStep_NoBreak ==
    /\ pc = "startup"
    /\ idx <= Len(model_priority)
    /\ idx' = idx + 1
    /\ IF files[idx] = "ok"
       THEN model' = load_model(idx) /\ model_name' = model_priority[idx].name
       ELSE UNCHANGED << model, model_name >>
    /\ UNCHANGED << files, bias, tasks, pc, req, resp >>

\* one iteration of `for filename, name in model_priority`
LoadStep ==
    /\ pc = "startup"
    /\ idx <= Len(model_priority)
    /\ IF files[idx] = "missing" THEN
            \* model_path.exists() is False: next candidate
            /\ idx' = idx + 1
            /\ UNCHANGED << model, model_name, pc >>
       ELSE IF files[idx] = "corrupt" THEN
            \* load_model raised: logged, `continue`
            /\ idx' = idx + 1
            /\ UNCHANGED << model, model_name, pc >>
       ELSE
            \* loaded: `break`
            /\ model' = load_model(idx)
            /\ model_name' = model_priority[idx].name
            /\ pc' = "serving"
            /\ UNCHANGED idx
    /\ UNCHANGED << files, bias, tasks, req, resp >>

\* the loop ran out of candidates
LoadDone ==
    /\ pc = "startup"
    /\ idx > Len(model_priority)
    /\ pc' = "serving"
    /\ UNCHANGED << files, bias, tasks, idx, model, model_name, req, resp >>

\* ------------------------------------------------------------- images
IMG_SIZE == << 224, 224 >>

\* last byte of a decodable file (the JPEG end-of-image marker's 0xD9)
EOI == 217

\* colour modes of decoded files: grayscale, RGB, RGB with alpha
Modes == << "L", "RGB", "RGBA" >>

\* PIL's Image.open(io.BytesIO(bytes)): [ok, image]; ok = FALSE is the
\* UnidentifiedImageError.  Which bytes decode is PIL's business; the model
\* fixes one rule that is a function of the bytes alone: a file decodes iff
\* it ends with EOI, and the byte before it carries mode, size and colour.
\* An image is its mode, its size (width, height) and the band values
\* (0..255) of its pixels, here one colour.
ImageOpen(b) ==
    IF ByteFromEnd(b, 1) # EOI
    THEN [ok |-> FALSE, image |-> [mode |-> "", size |-> << 0, 0 >>, px |-> << >>]]
    ELSE LET v == IF ByteFromEnd(b, 2) < 0 THEN 0 ELSE ByteFromEnd(b, 2)
             m == Modes[((v % 5) % 3) + 1]
         IN  [ok |-> TRUE,
              image |-> [mode |-> m,
                         size |-> << 1 + (v % 3) * 300, 1 + (v % 5) >>,
                         px |-> IF m = "L" THEN << v >>
                                ELSE IF m = "RGB" THEN << v, v \div 2, 255 >>
                                ELSE << v, 255, 0, 128 >>]]

\* image.convert('RGB'): gray is replicated over the channels, alpha dropped
convert_RGB(image) ==
    [image EXCEPT !.mode = "RGB",
                  !.px = IF Len(image.px) = 1
                         THEN << image.px[1], image.px[1], image.px[1] >>
                         ELSE SubSeq(image.px, 1, 3)]

\* image.resize(size): the size changes, a single colour stays that colour
resize(image, size) == [image EXCEPT !.size = size]

\* np.array(image): uint8 array of shape (height, width[, bands])
np_array(image) ==
    [shape |-> IF Len(image.px) = 1
               THEN << image.size[2], image.size[1] >>
               ELSE << image.size[2], image.size[1], Len(image.px) >>,
     vals |-> image.px]

\* img_array.astype('float32') / 255.0
div_255(arr) ==
    [arr EXCEPT !.vals = [i \in 1..Len(arr.vals) |-> RoundQ(arr.vals[i] * One, 255)]]

\* np.expand_dims(img_array, axis=0)
expand_dims(arr) == [arr EXCEPT !.shape = << 1 >> \o arr.shape]

\* the conversion to RGB left out
preprocess_image_NoConvert(image) ==
    expand_dims(div_255(np_array(resize(image, IMG_SIZE))))

\* preprocess_image: convert to RGB, resize, /255.0 as float, batch axis
preprocess_image(image) ==
    LET rgb == IF image.mode # "RGB" THEN convert_RGB(image) ELSE image
        resized == resize(rgb, IMG_SIZE)
        img_array == div_255(np_array(resized))
    IN  expand_dims(img_array)

\* model.predict(img_array, verbose=0)[0][0]: the network's scalar output,
\* a float of [0,1] fixed by the weights and the tensor
ModelPredict(m, img_array) ==
    LET s == RoundF(m.w + img_array.vals[1])
    IN  IF s > One THEN One ELSE s

\* ------------------------------------------------------------- make_prediction
HTTPException(code) == [status |-> code, result |-> [none |-> TRUE]]

JSONResponse(content) == [status |-> 200, result |-> content]

\* a non-strict comparison in place of `prediction > 0.5`
PredictedClass_GE(prediction) == IF prediction >= Half THEN "PNEUMONIA" ELSE "NORMAL"

PredictedClass(prediction) == IF prediction > Half THEN "PNEUMONIA" ELSE "NORMAL"

\* the confidence taken from the positive class whatever the label
Confidence_Raw(prediction) == prediction

Confidence(prediction) ==
    IF prediction > Half THEN prediction ELSE FSub(One, prediction)

\* the result dict of make_prediction for network output `prediction`
\* (the timestamp, datetime.now(), is left out)
PredictionResult(prediction) ==
    [prediction |-> PredictedClass(prediction),
     confidence |-> Confidence(prediction),
     probabilities |-> [NORMAL |-> FSub(One, prediction),
                        PNEUMONIA |-> prediction],
     model_used |-> model_name]

ModelMissing == model = None

\* the missing model reported as a processing failure
make_prediction_500(img_array) ==
    IF ModelMissing
    THEN [raised |-> TRUE, exc |-> HTTPException(500)]
    ELSE [raised |-> FALSE,
          result |-> PredictionResult(ModelPredict(model, img_array))]

\* make_prediction(img_array): the result dict, or the raised HTTPException
make_prediction(img_array) ==
    IF ModelMissing
    THEN [raised |-> TRUE, exc |-> HTTPException(503)]
    ELSE [raised |-> FALSE,
          result |-> PredictionResult(ModelPredict(model, img_array))]

\* ------------------------------------------------------------- endpoints
\* GET /
root ==
    JSONResponse([message |-> "API de Deteccion de Neumonia",
                  version |-> "1.0.0",
                  status |-> "online",
                  model |-> IF model # None THEN model_name ELSE "No disponible"])

\* a liveness-only report: healthy whenever the process answers
health_check_AlwaysHealthy ==
    JSONResponse([status |-> "healthy",
                  model_loaded |-> model # None,
                  model_name |-> IF model # None THEN model_name ELSE "None",
                  message |-> "API funcionando correctamente"])

\* GET /health (the timestamp is left out)
health_check ==
    JSONResponse([status |-> IF model # None THEN "healthy" ELSE "degraded",
                  model_loaded |-> model # None,
                  model_name |-> IF model # None THEN model_name ELSE "None",
                  message |-> IF model # None THEN "API funcionando correctamente"
                              ELSE "API sin modelo cargado"])

\* the handlers' error responses
BadContentType == HTTPException(400)
PayloadTooLarge == HTTPException(413)
\* a missing key left to data["image"]: KeyError, then `except Exception`
MissingField_KeyError == HTTPException(500)
MissingField == HTTPException(400)
BadBase64 == HTTPException(400)
\* an unexpected exception reported as a client error
ProcessingError_400 == HTTPException(400)
\* `except Exception` at the end of both handlers
ProcessingError == HTTPException(500)

\* str.startswith
StartsWith(s, prefix) ==
    Len(s) >= Len(prefix) /\ SubSeq(s, 1, Len(prefix)) = prefix

\* 'image/'
ImagePrefix == << "i", "m", "a", "g", "e", "/" >>

MAX_SIZE == 10 * 1024 * 1024

\* the limit taken as exclusive
TooLarge_GE(contents) == ByteLen(contents) >= MAX_SIZE

\* `len(contents) > 10 * 1024 * 1024`
TooLarge(contents) == ByteLen(contents) > MAX_SIZE

\* POST /predict.  file.content_type is [none |-> TRUE] for Python's None
\* (no Content-Type on the part) and [none |-> FALSE, s |-> chars] for a str.
predict(file) ==
    IF file.content_type.none THEN
        \* None.startswith: AttributeError, caught by `except Exception`
        ProcessingError
    ELSE IF ~StartsWith(file.content_type.s, ImagePrefix) THEN
        BadContentType
    ELSE IF TooLarge(file.contents) THEN
        PayloadTooLarge
    ELSE
        LET opened == ImageOpen(file.contents)
        IN  IF ~opened.ok THEN
                \* UnidentifiedImageError, caught by `except Exception`
                ProcessingError
            ELSE
                LET made == make_prediction(preprocess_image(opened.image))
                IN  IF made.raised THEN made.exc   \* `except HTTPException: raise`
                    ELSE JSONResponse(made.result)

\* base64.b64decode(data["image"]): a str is decoded, any other JSON value
\* raises TypeError
b64decode(v) ==
    IF v.type # "str"
    THEN [ok |-> FALSE, bytes |-> [pre |-> 0, data |-> << >>]]
    ELSE B64DecodeStr(v.str)

\* POST /predict_base64.  data is the JSON object: its key set and the value
\* under "image" (read only when the key is there).
predict_base64(data) ==
    IF "image" \notin data.keys THEN
        MissingField
    ELSE
        LET decoded == b64decode(data.image)
        IN  IF ~decoded.ok THEN
                \* inner `except Exception`: 400
                BadBase64
            ELSE
                LET opened == ImageOpen(decoded.bytes)
                IN  IF ~opened.ok THEN
                        ProcessingError
                    ELSE
                        LET made == make_prediction(preprocess_image(opened.image))
                        IN  IF made.raised THEN made.exc
                            ELSE JSONResponse(made.result)

\* ------------------------------------------------------------- inputs
RECURSIVE SeqsUpTo(_, _)
SeqsUpTo(S, n) ==
    IF n = 0 THEN {<< >>}
    ELSE LET shorter == SeqsUpTo(S, n - 1)
         IN  shorter \cup {Append(t, x) : t \in {u \in shorter : Len(u) = n - 1}, x \in S}

\* byte values of the explicit suffix: zero, an odd intensity, the marker
DataBytes == {0, 201, EOI}

\* number of leading zero-byte triples that puts the payload just under 10 MiB
BigPre == (MAX_SIZE - 1) \div 3

Payloads ==
    {[pre |-> k, data |-> s] : k \in {0, BigPre}, s \in SeqsUpTo(DataBytes, MaxLen)}

Str(t) == [none |-> FALSE, s |-> t]

ContentTypes ==
    { Str(<< "i", "m", "a", "g", "e", "/", "p", "n", "g" >>),
      Str(<< "i", "m", "a", "g", "e", "/", "j", "p", "e", "g" >>),
      Str(<< "t", "e", "x", "t", "/", "p", "l", "a", "i", "n" >>),
      Str(<< "i", "m", "a", "g", "e" >>),
      Str(<< >>),
      None }

Uploads == [content_type : ContentTypes, contents : Payloads]

RECURSIVE StripPads(_)
StripPads(c) ==
    IF Len(c) > 0 /\ c[Len(c)] = PAD THEN StripPads(SubSeq(c, 1, Len(c) - 1)) ELSE c

\* texts a client can send for an encoded payload: the encoding itself, and
\* the encoding damaged by a stray character, wrong padding or truncation
Texts(e) ==
    {[pre |-> e.pre, chars |-> c] :
        c \in { e.chars,
                << BAD >> \o e.chars,
                e.chars \o << BAD >>,
                e.chars \o << NONASCII >>,
                e.chars \o << PAD >>,
                StripPads(e.chars),
                SubSeq(e.chars, 1, Len(e.chars) - 1) }}

JStr(t) == [type |-> "str", str |-> t]
JInt == [type |-> "int"]
JNull == [type |-> "null"]

ImageValues ==
    {JStr(t) : t \in UNION {Texts(B64Encode(b)) : b \in Payloads}} \cup {JInt, JNull}

Bodies ==
    {[keys |-> {"image"}, image |-> v] : v \in ImageValues}
    \cup {[keys |-> {"image", "wrong_field"}, image |-> v] : v \in {JInt, JStr(B64Encode([pre |-> 0, data |-> << EOI >>]))}}
    \cup {[keys |-> k, image |-> JNull] : k \in {{}, {"wrong_field"}, {"Image"}, {"file", "wrong_field"}}}

\* ------------------------------------------------------------- requests
Idle == pc = "serving" /\ resp = NoResp

Root ==
    /\ Idle
    /\ req' = [endpoint |-> "root"]
    /\ resp' = root
    /\ UNCHANGED << files, bias, tasks, pc, idx, model, model_name >>

HealthCheck ==
    /\ Idle
    /\ req' = [endpoint |-> "health"]
    /\ resp' = health_check
    /\ UNCHANGED << files, bias, tasks, pc, idx, model, model_name >>

Predict ==
    /\ Idle
    /\ \E file \in Uploads :
          /\ req' = [endpoint |-> "predict", file |-> file]
          /\ resp' = predict(file)
    /\ UNCHANGED << files, bias, tasks, pc, idx, model, model_name >>

PredictBase64 ==
    /\ Idle
    /\ \E data \in Bodies :
          /\ req' = [endpoint |-> "predict_base64", data |-> data]
          /\ resp' = predict_base64(data)
    /\ UNCHANGED << files, bias, tasks, pc, idx, model, model_name >>

\* the response is sent and the server waits for the next request
Deliver ==
    /\ pc = "serving"
    /\ resp # NoResp
    /\ req' = NoReq
    /\ resp' = NoResp
    /\ UNCHANGED << files, bias, tasks, pc, idx, model, model_name >>

Init ==
    /\ files \in [1..Len(model_priority) -> FileStates]
    /\ bias \in Floats01
    /\ pc = "startup"
    /\ idx = 1
    /\ model = None
    /\ model_name = NoneName
    /\ req = NoReq
    /\ resp = NoResp
    /\ tasks = [s \in Slots |-> NoTask]

Next ==
    \/ LoadStep
    \/ LoadDone
    \/ Root
    \/ HealthCheck
    \/ Predict
    \/ PredictBase64
    \/ Deliver

Spec == Init /\ [][Next]_vars
\* the two requests that carry the byte string b
AsUpload(b) ==
    [content_type |-> Str(<< "i", "m", "a", "g", "e", "/", "p", "n", "g" >>),
     contents |-> b]
AsBase64(b) == [keys |-> {"image"}, image |-> JStr(B64Encode(b))]

\* ------------------------------------------------------------- concurrent requests
\* The handlers are coroutines on one event loop.  A task is the request,
\* the position of its handler and the handler's local `contents`; tasks
\* take their steps in any order.  The steps are those of predict and
\* predict_base64, cut at `await file.read()` and once more before
\* Image.open, which is finer than the event loop's own switching.

ConcPayloads ==
    { [pre |-> 0, data |-> << EOI >>],
      [pre |-> 0, data |-> << 0, 0 >>],
      [pre |-> BigPre, data |-> << 0, EOI >>] }

ConcRequests ==
    {[endpoint |-> "root"], [endpoint |-> "health"]}
    \cup {[endpoint |-> "predict", file |-> AsUpload(b)] : b \in ConcPayloads}
    \cup {[endpoint |-> "predict",
           file |-> [content_type |-> Str(<< "t", "e", "x", "t", "/", "p", "l", "a", "i", "n" >>),
                     contents |-> [pre |-> 0, data |-> << EOI >>]]]}
    \cup {[endpoint |-> "predict_base64", data |-> AsBase64(b)] :
             b \in {[pre |-> 0, data |-> << EOI >>], [pre |-> 0, data |-> << 201, EOI >>]}}
    \cup {[endpoint |-> "predict_base64", data |-> [keys |-> {"wrong_field"}, image |-> JNull]]}

Finished(s, response) ==
    tasks' = [tasks EXCEPT ![s] = [at |-> "done", req |-> tasks[s].req, resp |-> response]]

Serving == UNCHANGED << files, bias, pc, idx, model, model_name, req, resp >>

\* a request arrives and its handler is scheduled
Arrive(s) ==
    /\ pc = "serving"
    /\ tasks[s] = NoTask
    /\ \E r \in ConcRequests : tasks' = [tasks EXCEPT ![s] = [at |-> "start", req |-> r]]
    /\ Serving

\* root and health_check run without suspending
SimpleTask(s) ==
    /\ tasks[s].at = "start"
    /\ tasks[s].req.endpoint \in {"root", "health"}
    /\ Finished(s, IF tasks[s].req.endpoint = "root" THEN root ELSE health_check)
    /\ Serving

\* predict up to `contents = await file.read()`
PredictStart(s) ==
    /\ tasks[s].at = "start"
    /\ tasks[s].req.endpoint = "predict"
    /\ LET file == tasks[s].req.file
       IN  IF file.content_type.none THEN Finished(s, ProcessingError)
           ELSE IF ~StartsWith(file.content_type.s, ImagePrefix)
           THEN Finished(s, BadContentType)
           ELSE tasks' = [tasks EXCEPT ![s] =
                              [at |-> "read", req |-> tasks[s].req, contents |-> file.contents]]
    /\ Serving

\* predict resumed with `contents`: the size check
PredictRead(s) ==
    /\ tasks[s].at = "read"
    /\ IF TooLarge(tasks[s].contents) THEN Finished(s, PayloadTooLarge)
       ELSE tasks' = [tasks EXCEPT ![s].at = "open"]
    /\ Serving

\* predict_base64 up to Image.open: the field check and b64decode
Base64Start(s) ==
    /\ tasks[s].at = "start"
    /\ tasks[s].req.endpoint = "predict_base64"
    /\ LET data == tasks[s].req.data
       IN  IF "image" \notin data.keys THEN Finished(s, MissingField)
           ELSE IF ~b64decode(data.image).ok THEN Finished(s, BadBase64)
           ELSE tasks' = [tasks EXCEPT ![s] =
                              [at |-> "open", req |-> tasks[s].req,
                               contents |-> b64decode(data.image).bytes]]
    /\ Serving

\* the bytes kept in one module-level buffer that every handler writes
SharedContents(s) ==
    LET holders == {t \in Slots : tasks[t].at \in {"read", "open"}}
    IN  tasks[CHOOSE t \in holders : \A u \in holders : t >= u].contents

\* the bytes a handler opens: its own local
OwnContents(s) == tasks[s].contents

\* both handlers from Image.open to the response
OpenAndPredict(s) ==
    /\ tasks[s].at = "open"
    /\ LET opened == ImageOpen(OwnContents(s))
       IN  IF ~opened.ok THEN Finished(s, ProcessingError)
           ELSE LET made == make_prediction(preprocess_image(opened.image))
                IN  IF made.raised THEN Finished(s, made.exc)
                    ELSE Finished(s, JSONResponse(made.result))
    /\ Serving

\* the response is sent and the slot is free again
Respond(s) ==
    /\ tasks[s].at = "done"
    /\ tasks' = [tasks EXCEPT ![s] = NoTask]
    /\ Serving

NextConc ==
    \/ LoadStep
    \/ LoadDone
    \/ \E s \in Slots :
          \/ Arrive(s)
          \/ SimpleTask(s)
          \/ PredictStart(s)
          \/ PredictRead(s)
          \/ Base64Start(s)
          \/ OpenAndPredict(s)
          \/ Respond(s)

InitConc ==
    /\ files \in [1..Len(model_priority) -> FileStates]
    /\ bias \in {0, Half}
    /\ pc = "startup"
    /\ idx = 1
    /\ model = None
    /\ model_name = NoneName
    /\ req = NoReq
    /\ resp = NoResp
    /\ tasks = [s \in Slots |-> NoTask]

SpecConc == InitConc /\ [][NextConc]_vars

\* ------------------------------------------------------------- properties
IsPredict == req.endpoint = "predict"
IsBase64 == req.endpoint = "predict_base64"
Inference == IsPredict \/ IsBase64
Answered == resp # NoResp

\* the bytes the handler hands to Image.open for the current request
ReqBytes ==
    IF IsPredict THEN req.file.contents ELSE b64decode(req.data.image).bytes

\* the network's output for the current request
NetOutput == ModelPredict(model, preprocess_image(ImageOpen(ReqBytes).image))

Success == Inference /\ Answered /\ resp.status = 200

Max(a, b) == IF a >= b THEN a ELSE b

\* C1: a successful response is labelled PNEUMONIA iff the network output p
\* is > 0.5, p = 0.5 gives NORMAL, and the label agrees with
\* probabilities.PNEUMONIA > 0.5 of the same response.
C1_LabelIffAboveHalf ==
    Success =>
        /\ (resp.result.prediction = "PNEUMONIA") <=> (NetOutput > Half)
        /\ resp.result.prediction \in {"PNEUMONIA", "NORMAL"}
        /\ (NetOutput = Half) => (resp.result.prediction = "NORMAL")
        /\ (resp.result.prediction = "PNEUMONIA")
               <=> (resp.result.probabilities.PNEUMONIA > Half)

\* the tie: a network output of exactly 0.5 answered NORMAL
C1_Witness ==
    Success /\ NetOutput = Half /\ resp.result.prediction = "NORMAL"

\* C2 as stated: confidence = max of the two probabilities, NORMAL = 1 - p,
\* PNEUMONIA = p, the two sum to exactly 1, and 0.5 <= confidence <= 1.
C2_SumExactlyOne ==
    Success =>
        /\ resp.result.confidence
               = Max(resp.result.probabilities.NORMAL, resp.result.probabilities.PNEUMONIA)
        /\ resp.result.probabilities.PNEUMONIA = NetOutput
        /\ resp.result.probabilities.NORMAL = One - NetOutput
        /\ resp.result.probabilities.NORMAL + resp.result.probabilities.PNEUMONIA = One
        /\ resp.result.confidence >= Half
        /\ resp.result.confidence <= One

\* C2 (amended): confidence = max of the two probabilities and lies in
\* [0.5, 1]; PNEUMONIA = p and NORMAL is 1 - p rounded to the float format,
\* so the two sum to 1 up to half a unit in the last place of [0.5, 1)
\* (2^-25 for float32), and to exactly 1 whenever p >= 0.5.
C2_ConfidenceIsMaxSumWithinRounding ==
    Success =>
        LET n == resp.result.probabilities.NORMAL
            q == resp.result.probabilities.PNEUMONIA
            d == n + q - One
        IN  /\ resp.result.confidence = Max(n, q)
            /\ q = NetOutput
            /\ n \in Floats01
            /\ 2 * d <= Pow2(FracBits - MantBits)
            /\ 2 * (0 - d) <= Pow2(FracBits - MantBits)
            /\ (q >= Half) => (d = 0)
            /\ resp.result.confidence >= Half
            /\ resp.result.confidence <= One

\* a NORMAL answer whose probabilities do not sum to 1: 1 - p was rounded
C2_Witness ==
    /\ Success
    /\ resp.result.prediction = "NORMAL"
    /\ resp.result.confidence = resp.result.probabilities.NORMAL
    /\ resp.result.probabilities.NORMAL + resp.result.probabilities.PNEUMONIA # One
\* the declared content type of the current /predict request names an image
ImageTyped ==
    /\ ~req.file.content_type.none
    /\ StartsWith(req.file.content_type.s, ImagePrefix)

\* the current request gets as far as the call of make_prediction
ReachesModel ==
    \/ /\ IsPredict
       /\ ImageTyped
       /\ ByteLen(req.file.contents) <= MAX_SIZE
       /\ ImageOpen(req.file.contents).ok
    \/ /\ IsBase64
       /\ "image" \in req.data.keys
       /\ b64decode(req.data.image).ok
       /\ ImageOpen(b64decode(req.data.image).bytes).ok

\* C3 as stated: with no model loaded every inference request, whatever its
\* content, is answered 503.  It is stated here for requests that declare a
\* content type, so that its refutation does not rest on the failure of
\* uploads that declare none.
C3_Always503 ==
    (Inference /\ Answered /\ model = None
        /\ (IsPredict => ~req.file.content_type.none))
    => resp.status = 503

\* C3 (amended): with no model loaded no inference request is answered 200;
\* it is answered 503 exactly when it gets as far as the model check (its
\* input passes the endpoint's checks and decodes as an image), and with the
\* status of the earlier failing step (400, 413 or 500) otherwise.
C3_NoSuccessWithoutModel ==
    (Inference /\ Answered /\ model = None) =>
        /\ resp.status # 200
        /\ resp.status \in {400, 413, 500, 503}
        /\ (resp.status = 503) <=> ReachesModel

\* a decodable image sent while no model is loaded, answered 503
C3_Witness ==
    /\ Inference /\ Answered /\ model = None
    /\ ReachesModel
    /\ resp.status = 503

\* C4: a /predict upload whose declared content type is not an image type,
\* or that declares none, is answered 400, whatever its size and bytes and
\* whether or not a model is loaded.
C4_NonImageTypeIs400 ==
    (IsPredict /\ Answered /\ ~ImageTyped) => resp.status = 400

\* C5: an image-typed /predict upload longer than 10 MiB is answered 413,
\* decodable or not, model or not; one of at most 10 MiB is never answered
\* 413.
C5_OversizeIs413 ==
    (IsPredict /\ Answered /\ ImageTyped) =>
        /\ (ByteLen(req.file.contents) > 10 * 1024 * 1024) => (resp.status = 413)
        /\ (ByteLen(req.file.contents) <= 10 * 1024 * 1024) => (resp.status # 413)

\* an upload of exactly 10 MiB that is a valid image, answered 200
C5_Witness ==
    /\ IsPredict /\ Answered /\ ImageTyped
    /\ ByteLen(req.file.contents) = 10 * 1024 * 1024
    /\ resp.status = 200

\* C6: a /predict_base64 body without the key "image" is answered 400,
\* whatever else it holds and whether or not a model is loaded.
C6_MissingImageIs400 ==
    (IsBase64 /\ Answered /\ "image" \notin req.data.keys) => resp.status = 400

\* a body with another field only, sent while no model is loaded
C6_Witness ==
    /\ IsBase64 /\ Answered
    /\ req.data.keys = {"wrong_field"}
    /\ model = None
    /\ resp.status = 400
\* a JSON value that is a str of well-formed base64: only alphabet
\* characters, a length that is a multiple of 4, at most two '=' at the end
ValidBase64(v) ==
    /\ v.type = "str"
    /\ LET c == v.str.chars
           body == StripPads(c)
       IN  /\ Len(c) % 4 = 0
           /\ Len(c) - Len(body) <= 2
           /\ \A i \in 1..Len(body) : body[i] < PAD

\* C7: a /predict_base64 body whose "image" value is not valid base64 (a
\* character outside the alphabet, wrong padding, not a string) is answered
\* 400, never 200 or 500.
C7_InvalidBase64Is400 ==
    (IsBase64 /\ Answered /\ "image" \in req.data.keys /\ ~ValidBase64(req.data.image))
    => resp.status = 400

\* the current request passed its endpoint's input validation
PassesValidation ==
    \/ IsPredict /\ ImageTyped /\ ByteLen(req.file.contents) <= MAX_SIZE
    \/ IsBase64 /\ "image" \in req.data.keys /\ ValidBase64(req.data.image)

\* a step of the current request raised something other than HTTPException
OtherException ==
    \/ IsPredict /\ req.file.content_type.none
    \/ /\ IsPredict /\ ImageTyped /\ ByteLen(req.file.contents) <= MAX_SIZE
       /\ ~ImageOpen(req.file.contents).ok
    \/ /\ IsBase64 /\ "image" \in req.data.keys
       /\ b64decode(req.data.image).ok
       /\ ~ImageOpen(b64decode(req.data.image).bytes).ok

\* C8: bytes that pass the endpoint's input validation but do not decode as
\* an image are answered 500, with or without a model; the statuses 400, 413
\* and 503 are raised as such, and a response is 500 exactly when a step
\* raised any other exception.
C8_UndecodableIs500 ==
    (Inference /\ Answered) =>
        /\ (PassesValidation /\ ~ImageOpen(ReqBytes).ok) => (resp.status = 500)
        /\ resp.status \in {200, 400, 413, 500, 503}
        /\ (resp.status = 500) <=> OtherException

\* well-formed base64 of bytes that are no image, sent while no model is
\* loaded, answered 500
C8_Witness ==
    /\ IsBase64 /\ Answered /\ PassesValidation
    /\ ~ImageOpen(ReqBytes).ok
    /\ model = None
    /\ resp.status = 500

\* some candidate file exists and loads
SomeLoadable == \E i \in 1..Len(model_priority) : files[i] = "ok"

\* the first candidate that exists and loads
FirstLoadable ==
    CHOOSE i \in 1..Len(model_priority) :
        files[i] = "ok" /\ \A j \in 1..(i - 1) : files[j] # "ok"

\* C9: /health answers 200 with model_loaded and "healthy" exactly when a
\* model was loaded and "degraded" otherwise, model_name being the loaded
\* candidate's human name or "None"; a 503 is answered only while /health
\* reports degraded, and then by every request that gets to the model check.
C9_HealthReport ==
    /\ (req.endpoint = "health" /\ Answered) =>
          /\ resp.status = 200
          /\ resp.result.model_loaded = SomeLoadable
          /\ resp.result.model_loaded = (model # None)
          /\ resp.result.status = IF SomeLoadable THEN "healthy" ELSE "degraded"
          /\ resp.result.model_name =
                 IF SomeLoadable THEN model_priority[FirstLoadable].name ELSE "None"
    /\ (Inference /\ Answered /\ resp.status = 503) =>
          health_check.result.status = "degraded"
    /\ (Inference /\ Answered /\ ReachesModel) =>
          ((resp.status = 503) <=> (health_check.result.status = "degraded"))

\* /health answered in degraded mode
C9_Witness ==
    /\ req.endpoint = "health" /\ Answered
    /\ resp.result.status = "degraded"
    /\ ~resp.result.model_loaded
    /\ resp.result.model_name = "None"

\* C10: for every byte string, /predict on the bytes (image-typed) and
\* /predict_base64 on their base64 encoding give the same status and, on
\* success, the same prediction, confidence and probabilities: the answer to
\* the current request is the answer the other entry point gives for the
\* same bytes.
C10_EntryPointsEquivalent ==
    /\ (IsPredict /\ Answered /\ ImageTyped) =>
          resp = predict_base64(AsBase64(req.file.contents))
    /\ (IsBase64 /\ Answered) =>
          \A b \in Payloads : (req.data = AsBase64(b)) => (resp = predict(AsUpload(b)))

\* the same for byte strings of at most 10 MiB
C10_EquivalentUpToLimit ==
    /\ (IsPredict /\ Answered /\ ImageTyped /\ ByteLen(req.file.contents) <= MAX_SIZE) =>
          resp = predict_base64(AsBase64(req.file.contents))
    /\ (IsBase64 /\ Answered) =>
          \A b \in Payloads :
              (req.data = AsBase64(b) /\ ByteLen(b) <= MAX_SIZE) => (resp = predict(AsUpload(b)))
\* the image decoded from the current request's bytes
ReqImage == ImageOpen(ReqBytes).image

\* C11: for every decoded image, of mode L, RGB or RGBA and of any size,
\* preprocess_image gives a tensor of shape (1, 224, 224, 3) with float
\* values in [0,1], the image's RGB colour divided by 255 (gray replicated,
\* alpha dropped, 255 giving exactly 1); the request does not fail in it:
\* it is answered by make_prediction, 200 or 503.
C11_TensorShapeAndRange ==
    (Inference /\ Answered /\ ReachesModel) =>
        LET t == preprocess_image(ReqImage)
            rgb == IF Len(ReqImage.px) = 1
                   THEN << ReqImage.px[1], ReqImage.px[1], ReqImage.px[1] >>
                   ELSE << ReqImage.px[1], ReqImage.px[2], ReqImage.px[3] >>
        IN  /\ t.shape = << 1, 224, 224, 3 >>
            /\ Len(t.vals) = 3
            /\ \A i \in 1..3 :
                  /\ t.vals[i] \in Floats01
                  /\ t.vals[i] = RoundQ(rgb[i] * One, 255)
                  /\ (rgb[i] = 255) => (t.vals[i] = One)
                  /\ (rgb[i] = 0) => (t.vals[i] = 0)
            /\ resp.status \in {200, 503}

\* an RGBA image wider than 224 pixels, preprocessed and classified
C11_Witness ==
    /\ Inference /\ Answered /\ ReachesModel
    /\ ReqImage.mode = "RGBA"
    /\ ReqImage.size[1] > 224
    /\ resp.status = 200
\* what the start-up loop has established so far
StartupState ==
    /\ (model = None) <=> (model_name = NoneName)
    /\ pc = "startup" =>
          /\ model = None
          /\ idx \in 1..(Len(model_priority) + 1)
          /\ \A j \in 1..(idx - 1) : files[j] # "ok"
    /\ pc = "serving" =>
          IF SomeLoadable
          THEN /\ idx = FirstLoadable
               /\ model = load_model(FirstLoadable)
               /\ model.file = model_priority[FirstLoadable].filename
               /\ model_name = model_priority[FirstLoadable].name
          ELSE /\ idx = Len(model_priority) + 1
               /\ model = None
               /\ model_name = NoneName

\* what one step of the start-up loop does
StartupStep ==
    /\ (pc = "startup" /\ pc' = "startup") =>
          /\ idx' = idx + 1
          /\ files[idx] \in {"missing", "corrupt"}
          /\ model' = None /\ model_name' = NoneName
    /\ (pc = "startup" /\ pc' = "serving" /\ model' # None) =>
          /\ idx' = idx
          /\ files[idx] = "ok"
          /\ model'.file = model_priority[idx].filename
          /\ model_name' = model_priority[idx].name

\* C12: the candidates are probed in the order of model_priority, a missing
\* or failing candidate is passed over, the loop stops at the first
\* candidate that exists and loads, which becomes model with its human name
\* as model_name, and model and model_name are both absent iff no candidate
\* exists and loads.
C12_FirstLoadableWins == []StartupState /\ [][StartupStep]_vars

\* the third candidate loaded after a failing first and a missing second
C12_Witness ==
    /\ pc = "serving"
    /\ files = << "corrupt", "missing", "ok" >>
    /\ model # None
    /\ model_name = "CNN Baseline"
\* the response of request r handled alone, from start to end
RunAlone(r) ==
    IF r.endpoint = "root" THEN root
    ELSE IF r.endpoint = "health" THEN health_check
    ELSE IF r.endpoint = "predict" THEN predict(r.file)
    ELSE predict_base64(r.data)

\* every finished task carries the response of its request handled alone
OutcomeAlone ==
    \A s \in Slots : (tasks[s].at = "done") => (tasks[s].resp = RunAlone(tasks[s].req))

\* no step of a request changes the globals
GlobalsKept ==
    (pc = "serving") => (model' = model /\ model_name' = model_name /\ pc' = pc)

\* C13: after start-up, in every interleaving of concurrent requests to the
\* four endpoints, model and model_name keep their start-up values and every
\* request's outcome is the outcome of the same request handled alone.
C13_RequestsIndependent == []OutcomeAlone /\ [][GlobalsKept]_vars

\* a request answered 200 while another, different request is in mid-flight
C13_Witness ==
    /\ tasks[1].at = "done"
    /\ tasks[1].req.endpoint = "predict"
    /\ tasks[1].resp.status = 200
    /\ tasks[2].at = "open"
    /\ tasks[2].req # tasks[1].req
    /\ tasks[2].contents # tasks[1].req.file.contents
====
